---- MODULE Spec2Model ----
(***************************************************************************)
(* Model of amun/api_v1.py: the specification codec                        *)
(* (_parse_specification / _unparse_specification) over Python's object    *)
(* heap, and the request handlers post_inspection, get_inspection_status   *)
(* and get_inspection_specification around the orchestrator client.        *)
(*                                                                         *)
(* Python values:                                                          *)
(*   [t |-> "int", n |-> i]     an int                                     *)
(*   [t |-> "str", s |-> seq]   a str, as its sequence of characters       *)
(*   [t |-> "none"]             None                                       *)
(*   [t |-> "ref", a |-> addr]  a reference to a mutable heap object       *)
(* Heap objects (heap[addr]):                                              *)
(*   [t |-> "dict", m |-> f]    a dict, f a function from keys to values   *)
(*   [t |-> "list", l |-> seq]  a list of values                           *)
(* A document "by value" (what == compares, what JSON carries) has the     *)
(* same shape with nested dicts and lists in place of references.          *)
(***************************************************************************)
EXTENDS Integers, Sequences, FiniteSets, TLC

VARIABLES
    heap,        \* Python's heap: a sequence of dict and list objects
    pc,          \* codec runs: which calls have been made
    arg,         \* codec runs: the caller's document (a reference)
    arg0,        \* codec runs: the caller's document by value, before the call
    parsed,      \* result of _parse_specification(arg): reference and value at return
    reparsed,    \* result of _parse_specification(parsed)
    unparsed,    \* outcome of _unparse_specification
    post,        \* post_inspection: position, request, dockerfile outcome, response
    scheduled,   \* calls made to _OPENSHIFT.schedule_inspection
    status,      \* last get_inspection_status call: lookups, client calls, response
    getspec      \* last get_inspection_specification call: stored workflow, outcome

vars == <<heap, pc, arg, arg0, parsed, reparsed, unparsed, post, scheduled, status, getspec>>

codecVars == <<pc, arg, arg0, parsed, reparsed, unparsed>>
apiVars == <<post, scheduled, status, getspec>>

----------------------------------------------------------------------------
(* Bounds of the model *)

\* longest string leaf of a request document
MaxLen == 4
\* largest magnitude of an integer field
MaxInt == 11
\* longest stored integer-field string
MaxNumLen == 2

----------------------------------------------------------------------------
(* Values *)

Quote == "'"

PyInt(i) == [t |-> "int", n |-> i]
PyStr(s) == [t |-> "str", s |-> s]
PyNone == [t |-> "none"]
PyRef(a) == [t |-> "ref", a |-> a]
PyDict(m) == [t |-> "dict", m |-> m]
PyList(l) == [t |-> "list", l |-> l]

EmptyMap == << >>

\* a dict of one item, of two items, by value
D1(k1, v1) == PyDict(k1 :> v1)
D2(k1, v1, k2, v2) == PyDict((k1 :> v1) @@ (k2 :> v2))

\* m without key k (dict.pop)
Without(m, k) == [x \in DOMAIN m \ {k} |-> m[x]]

\* m with m[k] = v (a dict store: assigns or inserts)
With(m, k, v) == (k :> v) @@ m

----------------------------------------------------------------------------
(* re.sub and str.replace on character sequences *)

\* re.sub(r"'(?!')", "''", s): a quote not followed by a quote becomes two
RECURSIVE EscapeFrom(_, _)
EscapeFrom(s, i) ==
    IF i > Len(s) THEN << >>
    ELSE IF s[i] = Quote /\ (i = Len(s) \/ s[i + 1] # Quote)
         THEN <<Quote, Quote>> \o EscapeFrom(s, i + 1)
         ELSE <<s[i]>> \o EscapeFrom(s, i + 1)

\* variant: re.sub(r"(?<!')'(?!')", "''", s), only a quote standing alone is
\* doubled
re_sub_escape_isolated(s) ==
    LET alone(i) == /\ s[i] = Quote
                    /\ (i = 1 \/ s[i - 1] # Quote)
                    /\ (i = Len(s) \/ s[i + 1] # Quote)
        out[i \in 0..Len(s)] ==
            IF i = 0 THEN << >>
            ELSE out[i - 1] \o (IF alone(i) THEN <<Quote, Quote>> ELSE <<s[i]>>)
    IN out[Len(s)]

re_sub_escape(s) == EscapeFrom(s, 1)

\* re.sub(r"''", "'", s): leftmost non-overlapping pairs of quotes become one
RECURSIVE UnescapeFrom(_, _)
UnescapeFrom(s, i) ==
    IF i > Len(s) THEN << >>
    ELSE IF s[i] = Quote /\ i < Len(s) /\ s[i + 1] = Quote
         THEN <<Quote>> \o UnescapeFrom(s, i + 2)
         ELSE <<s[i]>> \o UnescapeFrom(s, i + 1)

\* variant: re.sub(r"''", "'", s, count=1), only the first pair is replaced
re_sub_unescape_once(s) ==
    LET at == {i \in 1..(Len(s) - 1) : s[i] = Quote /\ s[i + 1] = Quote} IN
    IF at = {} THEN s
    ELSE LET i == CHOOSE x \in at : \A y \in at : x <= y
         IN SubSeq(s, 1, i) \o SubSeq(s, i + 2, Len(s))

re_sub_unescape(s) == UnescapeFrom(s, 1)

\* s.replace("'", "''"): every quote becomes two
RECURSIVE str_replace_quotes(_)
str_replace_quotes(s) ==
    IF s = << >> THEN << >>
    ELSE (IF Head(s) = Quote THEN <<Quote, Quote>> ELSE <<Head(s)>>)
         \o str_replace_quotes(Tail(s))

----------------------------------------------------------------------------
(* str(int) and int(str) *)

Digits == <<"0", "1", "2", "3", "4", "5", "6", "7", "8", "9">>

DigitChars == {Digits[i] : i \in 1..10}

DigitValue(c) == (CHOOSE i \in 1..10 : Digits[i] = c) - 1

RECURSIVE NatToStr(_)
NatToStr(n) ==
    IF n < 10 THEN <<Digits[n + 1]>>
    ELSE NatToStr(n \div 10) \o <<Digits[(n % 10) + 1]>>

\* str(x) for the values the integer fields hold: an int gives its decimal
\* string, a str gives itself
str(v) ==
    IF v.t = "int"
    THEN PyStr(IF v.n < 0 THEN <<"-">> \o NatToStr(-v.n) ELSE NatToStr(v.n))
    ELSE IF v.t = "none" THEN PyStr(<<"N", "o", "n", "e">>)
    ELSE v

RECURSIVE DigitsToNat(_, _)
DigitsToNat(s, acc) ==
    IF s = << >> THEN acc
    ELSE DigitsToNat(Tail(s), 10 * acc + DigitValue(Head(s)))

AllDigits(s) == s # << >> /\ \A i \in 1..Len(s) : s[i] \in DigitChars

\* int(x): [ok |-> TRUE, v |-> value] or [ok |-> FALSE, exc |-> raised]
int(v) ==
    IF v.t = "int" THEN [ok |-> TRUE, v |-> v]
    ELSE IF v.t = "str" THEN
        IF AllDigits(v.s)
        THEN [ok |-> TRUE, v |-> PyInt(DigitsToNat(v.s, 0))]
        ELSE IF v.s # << >> /\ Head(v.s) = "-" /\ AllDigits(Tail(v.s))
        THEN [ok |-> TRUE, v |-> PyInt(-DigitsToNat(Tail(v.s), 0))]
        ELSE [ok |-> FALSE, exc |-> "ValueError"]
    ELSE [ok |-> FALSE, exc |-> "TypeError"]

----------------------------------------------------------------------------
(* The heap *)

\* a fresh object appended to the heap: [h |-> heap, v |-> reference]
Alloc(h, obj) == [h |-> Append(h, obj), v |-> PyRef(Len(h) + 1)]

\* a document by value placed on the heap as a fresh object tree (what the
\* request deserialiser and json.loads build)
RECURSIVE Store(_, _)
RECURSIVE StoreItems(_, _, _, _)
RECURSIVE StoreElems(_, _, _, _)
Store(h, pv) ==
    IF pv.t = "dict" THEN
        LET r == StoreItems(h, pv.m, DOMAIN pv.m, EmptyMap)
        IN Alloc(r.h, PyDict(r.m))
    ELSE IF pv.t = "list" THEN
        LET r == StoreElems(h, pv.l, 1, << >>)
        IN Alloc(r.h, PyList(r.l))
    ELSE [h |-> h, v |-> pv]

StoreItems(h, m, ks, acc) ==
    IF ks = {} THEN [h |-> h, m |-> acc]
    ELSE LET k == CHOOSE x \in ks : TRUE
             r == Store(h, m[k])
         IN StoreItems(r.h, m, ks \ {k}, With(acc, k, r.v))

StoreElems(h, l, i, acc) ==
    IF i > Len(l) THEN [h |-> h, l |-> acc]
    ELSE LET r == Store(h, l[i])
         IN StoreElems(r.h, l, i + 1, Append(acc, r.v))

\* the document a value denotes in heap h, by value
RECURSIVE Deref(_, _)
Deref(h, v) ==
    IF v.t = "ref" THEN
        LET o == h[v.a] IN
        IF o.t = "dict"
        THEN PyDict([k \in DOMAIN o.m |-> Deref(h, o.m[k])])
        ELSE PyList([i \in 1..Len(o.l) |-> Deref(h, o.l[i])])
    ELSE v

\* dict.copy(): a new dict holding the same values (the same references)
dict_copy(h, v) == Alloc(h, h[v.a])

\* d[k] = x on the dict at address a
SetItem(h, a, k, x) == [h EXCEPT ![a] = PyDict(With(h[a].m, k, x))]

----------------------------------------------------------------------------
(* _parse_specification *)

\* the keys of int_to_str / str_to_int, in the order the loops visit them
int_fields == <<"allowed_failures", "batch_size", "parallelism">>

IntKeys == {int_fields[i] : i \in 1..Len(int_fields)}

\* _escape_single_quotes(obj): dicts and lists are rewritten in place and
\* returned, a str is returned escaped, anything else is returned as it is.
\* Gives the heap after the walk and the value returned.
RECURSIVE _escape_single_quotes(_, _)
RECURSIVE EscapeItems(_, _, _)
RECURSIVE EscapeElems(_, _, _)
_escape_single_quotes(h, obj) ==
    IF obj.t = "ref" THEN
        IF h[obj.a].t = "dict"
        THEN [h |-> EscapeItems(h, obj.a, DOMAIN h[obj.a].m), v |-> obj]
        ELSE [h |-> EscapeElems(h, obj.a, 1), v |-> obj]
    ELSE IF obj.t = "str" THEN [h |-> h, v |-> PyStr(re_sub_escape(obj.s))]
    ELSE [h |-> h, v |-> obj]

\* for k in obj: obj[k] = _escape_single_quotes(obj[k])
EscapeItems(h, a, ks) ==
    IF ks = {} THEN h
    ELSE LET k == CHOOSE x \in ks : TRUE
             r == _escape_single_quotes(h, h[a].m[k])
         IN EscapeItems(SetItem(r.h, a, k, r.v), a, ks \ {k})

\* for i, v in enumerate(obj): obj[i] = _escape_single_quotes(v)
EscapeElems(h, a, i) ==
    IF i > Len(h[a].l) THEN h
    ELSE LET r == _escape_single_quotes(h, h[a].l[i])
         IN EscapeElems([r.h EXCEPT ![a] = PyList([r.h[a].l EXCEPT ![i] = r.v])],
                        a, i + 1)

\* variant: parsed_specification[key] = str(specification.get(key)), which
\* writes "None" under a key the document lacks
RECURSIVE CastToStr_get(_, _, _, _)
CastToStr_get(h, p, spec, i) ==
    IF i > Len(int_fields) THEN h
    ELSE LET key == int_fields[i]
             x == IF key \in DOMAIN h[spec].m THEN h[spec].m[key] ELSE PyNone
         IN CastToStr_get(SetItem(h, p, key, str(x)), p, spec, i + 1)

\* for key in int_to_str: parsed_specification[key] = str(specification[key])
RECURSIVE CastToStr(_, _, _, _)
CastToStr(h, p, spec, i) ==
    IF i > Len(int_fields) THEN h
    ELSE LET key == int_fields[i] IN
         IF key \notin DOMAIN h[spec].m
         THEN CastToStr(h, p, spec, i + 1)
         ELSE CastToStr(SetItem(h, p, key, str(h[spec].m[key])), p, spec, i + 1)

\* if key not in d: d[key] = {}
EnsureDict(h, a, key) ==
    IF key \in DOMAIN h[a].m THEN h
    ELSE LET r == Alloc(h, PyDict(EmptyMap)) IN SetItem(r.h, a, key, r.v)

\* _parse_specification(specification): the heap after the call and the
\* reference returned
_parse_specification(h, specification) ==
    LET c == dict_copy(h, specification)
        e == _escape_single_quotes(c.h, c.v)
        h1 == CastToStr(e.h, e.v.a, specification.a, 1)
        h2 == EnsureDict(h1, e.v.a, "build")
        h3 == EnsureDict(h2, e.v.a, "run")
    IN [h |-> h3, v |-> e.v]

----------------------------------------------------------------------------
(* _unparse_specification *)

RECURSIVE _unescape_single_quotes(_, _)
RECURSIVE UnescapeItems(_, _, _)
RECURSIVE UnescapeElems(_, _, _)
_unescape_single_quotes(h, obj) ==
    IF obj.t = "ref" THEN
        IF h[obj.a].t = "dict"
        THEN [h |-> UnescapeItems(h, obj.a, DOMAIN h[obj.a].m), v |-> obj]
        ELSE [h |-> UnescapeElems(h, obj.a, 1), v |-> obj]
    ELSE IF obj.t = "str" THEN [h |-> h, v |-> PyStr(re_sub_unescape(obj.s))]
    ELSE [h |-> h, v |-> obj]

UnescapeItems(h, a, ks) ==
    IF ks = {} THEN h
    ELSE LET k == CHOOSE x \in ks : TRUE
             r == _unescape_single_quotes(h, h[a].m[k])
         IN UnescapeItems(SetItem(r.h, a, k, r.v), a, ks \ {k})

UnescapeElems(h, a, i) ==
    IF i > Len(h[a].l) THEN h
    ELSE LET r == _unescape_single_quotes(h, h[a].l[i])
         IN UnescapeElems([r.h EXCEPT ![a] = PyList([r.h[a].l EXCEPT ![i] = r.v])],
                          a, i + 1)

\* for key in str_to_int: specification[key] = int(parsed_specification[key]);
\* the first conversion that fails raises out of the loop
RECURSIVE CastToInt(_, _, _, _)
CastToInt(h, s, p, i) ==
    IF i > Len(int_fields) THEN [ok |-> TRUE, h |-> h]
    ELSE LET key == int_fields[i] IN
         IF key \notin DOMAIN h[s].m
         THEN CastToInt(h, s, p, i + 1)
         ELSE LET n == int(h[p].m[key]) IN
              IF n.ok
              THEN CastToInt(SetItem(h, s, key, n.v), s, p, i + 1)
              ELSE [ok |-> FALSE, h |-> h, exc |-> n.exc]

\* variant: unparse that also inserts the build and run defaults, as parse does
_unparse_specification_defaults(h, parsed_specification) ==
    LET c == dict_copy(h, parsed_specification)
        u == _unescape_single_quotes(c.h, c.v)
        r == CastToInt(u.h, u.v.a, parsed_specification.a, 1)
    IN IF r.ok
       THEN [ok |-> TRUE,
             h |-> EnsureDict(EnsureDict(r.h, u.v.a, "build"), u.v.a, "run"),
             v |-> u.v]
       ELSE [ok |-> FALSE, h |-> r.h, exc |-> r.exc]

\* _unparse_specification(parsed_specification): the heap after the call and
\* either the reference returned or the exception raised
_unparse_specification(h, parsed_specification) ==
    LET c == dict_copy(h, parsed_specification)
        u == _unescape_single_quotes(c.h, c.v)
        r == CastToInt(u.h, u.v.a, parsed_specification.a, 1)
    IN IF r.ok
       THEN [ok |-> TRUE, h |-> r.h, v |-> u.v]
       ELSE [ok |-> FALSE, h |-> r.h, exc |-> r.exc]


----------------------------------------------------------------------------
(* Documents the model draws its inputs from, by value *)

Chars == {"a", Quote}

\* the strings over Chars of length at most n
StrsUpTo(n) == UNION {[1..k -> Chars] : k \in 0..n}

Strs == StrsUpTo(MaxLen)

Absent == [t |-> "absent"]

\* the item k: v, or nothing when v is Absent
Opt(k, v) == IF v.t = "absent" THEN EmptyMap ELSE (k :> v)

EmptyDict == PyDict(EmptyMap)

\* request documents whose string leaves carry quotes at several depths
QuoteDocs ==
    UNION {
        { D1("note", PyStr(s)),
          D1("build", D1("base", PyStr(s))),
          D2("note", PyStr(s), "packages", PyList(<<PyStr(s), PyStr(<<"a">>)>>)),
          D2("build", EmptyDict,
             "run", D1("env", PyList(<<D1("v", PyStr(s))>>))) } : s \in Strs }
    \cup
    { D2("note", PyStr(s1), "run", D1("script", PyStr(s2))) :
          s1 \in Strs, s2 \in StrsUpTo(2) }

IntVals == {PyInt(i) : i \in (-MaxInt)..MaxInt}

\* request documents with the integer fields present or absent
IntDocs ==
    { PyDict(Opt("allowed_failures", af) @@ Opt("batch_size", bs)
             @@ Opt("parallelism", pl) @@ Opt("note", nt) @@ Opt("build", bd)) :
          af \in IntVals \cup {Absent},
          bs \in {Absent, PyInt(1), PyInt(MaxInt)},
          pl \in {Absent, PyInt(0)},
          nt \in {Absent, PyStr(<<"a", Quote, "a">>)},
          bd \in {Absent, D1("base", PyStr(<<Quote, Quote>>))} }

RequestDocs == QuoteDocs \cup IntDocs

NumChars == {"0", "1", "-", "a"}

NumStrs == UNION {[1..k -> NumChars] : k \in 0..MaxNumLen}

Created == PyStr(<<"T">>)

\* documents as the orchestrator may hand them back: the integer fields are
\* strings, numeric or not
StoredDocs ==
    { PyDict(Opt("allowed_failures", af) @@ Opt("batch_size", bs)
             @@ Opt("@created", cr) @@ Opt("build", bd)
             @@ ("note" :> PyStr(<<"a", Quote, Quote>>))) :
          af \in {PyStr(n) : n \in NumStrs} \cup {Absent},
          bs \in {Absent, PyStr(<<"4">>), PyStr(<<"x">>)},
          cr \in {Absent, Created},
          bd \in {Absent, D1("base", PyStr(<<Quote, Quote, "a">>))} }

----------------------------------------------------------------------------
(* Codec runs: the two functions applied to bounded inputs *)

NotCalled == [called |-> FALSE]

Returned(h, v) == [called |-> TRUE, ok |-> TRUE, ref |-> v, val |-> Deref(h, v)]

Raised(exc) == [called |-> TRUE, ok |-> FALSE, exc |-> exc]

ApiIdle ==
    /\ post = [pc |-> "unused"]
    /\ scheduled = << >>
    /\ status = NotCalled
    /\ getspec = NotCalled

InitCodec ==
    /\ \E d \in RequestDocs \cup StoredDocs :
          /\ arg0 = d
          /\ LET r == Store(<< >>, d) IN heap = r.h /\ arg = r.v
          /\ \/ d \in RequestDocs /\ pc = "request"
             \/ d \in StoredDocs /\ pc = "stored"
    /\ parsed = NotCalled
    /\ reparsed = NotCalled
    /\ unparsed = NotCalled
    /\ ApiIdle

\* p = _parse_specification(d)
Parse ==
    /\ pc = "request"
    /\ LET r == _parse_specification(heap, arg) IN
          /\ heap' = r.h
          /\ parsed' = Returned(r.h, r.v)
    /\ pc' = "parsed"
    /\ UNCHANGED <<arg, arg0, reparsed, unparsed, apiVars>>

\* _parse_specification(p)
ParseAgain ==
    /\ pc = "parsed"
    /\ LET r == _parse_specification(heap, parsed.ref) IN
          /\ heap' = r.h
          /\ reparsed' = Returned(r.h, r.v)
    /\ pc' = "reparsed"
    /\ UNCHANGED <<arg, arg0, parsed, unparsed, apiVars>>

UnparseOutcome(r) == IF r.ok THEN Returned(r.h, r.v) ELSE Raised(r.exc)

\* _unparse_specification(p)
Unparse ==
    /\ pc = "parsed"
    /\ LET r == _unparse_specification(heap, parsed.ref) IN
          /\ heap' = r.h
          /\ unparsed' = UnparseOutcome(r)
    /\ pc' = "unparsed"
    /\ UNCHANGED <<arg, arg0, parsed, reparsed, apiVars>>

\* _unparse_specification(d) on a stored document
UnparseStored ==
    /\ pc = "stored"
    /\ LET r == _unparse_specification(heap, arg) IN
          /\ heap' = r.h
          /\ unparsed' = UnparseOutcome(r)
    /\ pc' = "unparsed_stored"
    /\ UNCHANGED <<arg, arg0, parsed, reparsed, apiVars>>

NextCodec == Parse \/ ParseAgain \/ Unparse \/ UnparseStored

SpecCodec == InitCodec /\ [][NextCodec]_vars


----------------------------------------------------------------------------
(* Vocabulary of the codec properties *)

\* the string leaves of a document by value, each with the path to it
RECURSIVE StrLeaves(_, _)
StrLeaves(pv, path) ==
    IF pv.t = "str" THEN {[path |-> path, s |-> pv.s]}
    ELSE IF pv.t = "dict"
    THEN UNION {StrLeaves(pv.m[k], Append(path, [k |-> k])) : k \in DOMAIN pv.m}
    ELSE IF pv.t = "list"
    THEN UNION {StrLeaves(pv.l[i], Append(path, [i |-> i])) : i \in 1..Len(pv.l)}
    ELSE {}

\* what a document by value holds at a path
RECURSIVE At(_, _)
At(pv, path) ==
    IF path = << >> THEN pv
    ELSE LET e == Head(path) IN
         At(IF pv.t = "dict" THEN pv.m[e.k] ELSE pv.l[e.i], Tail(path))

HasQuote(s) == \E i \in 1..Len(s) : s[i] = Quote

\* the lengths of the maximal runs of consecutive quotes of s
RunLens(s) ==
    { j - i + 1 : <<i, j>> \in
        { x \in (1..Len(s)) \X (1..Len(s)) :
            /\ x[1] <= x[2]
            /\ \A n \in x[1]..x[2] : s[n] = Quote
            /\ (x[1] = 1 \/ s[x[1] - 1] # Quote)
            /\ (x[2] = Len(s) \/ s[x[2] + 1] # Quote) } }

\* every quote is isolated or one of a doubled pair standing alone
RunsAtMostTwo(s) == \A n \in RunLens(s) : n <= 2

\* every quote is isolated or part of a doubled pair: a run is one quote or
\* splits into doubled pairs
IsolatedOrPaired(s) == \A n \in RunLens(s) : n = 1 \/ n % 2 = 0

AllIsolated(s) == \A n \in RunLens(s) : n = 1

AllDoubled(s) == \A n \in RunLens(s) : n = 2

IntFieldsHoldInts(d) == \A k \in IntKeys \cap DOMAIN d.m : d.m[k].t = "int"

\* d with empty build and run mappings where it lacks them
WithDefaults(d) ==
    PyDict([k \in DOMAIN d.m \cup {"build", "run"} |->
                IF k \in DOMAIN d.m THEN d.m[k] ELSE EmptyDict])

\* the value of a digit string, by positions
PlaceValue(s) ==
    LET Sum[i \in 0..Len(s)] ==
            IF i = 0 THEN 0
            ELSE Sum[i - 1] + DigitValue(s[i]) * 10 ^ (Len(s) - i)
    IN Sum[Len(s)]

\* s is the decimal string of the integer n
IsDecimalOf(s, n) ==
    LET body == IF n < 0 THEN Tail(s) ELSE s
        abs == IF n < 0 THEN -n ELSE n
    IN /\ s # << >>
       /\ (n < 0) = (Head(s) = "-")
       /\ AllDigits(body)
       /\ (Len(body) = 1 \/ Head(body) # "0")
       /\ PlaceValue(body) = abs

\* a string int() accepts: digits after an optional sign
NumericString(s) ==
    \/ AllDigits(s)
    \/ s # << >> /\ Head(s) = "-" /\ AllDigits(Tail(s))

----------------------------------------------------------------------------
(* Properties of the codec *)

\* C1: _parse_specification never mutates the document passed to it: after
\* the call the caller's document is, at every depth, what it was before
\* (the returned document shares no sub-document through which the escape
\* could have changed it).
C1_ParseLeavesInputUnchanged ==
    pc = "parsed" => Deref(heap, arg) = arg0

\* C2 as stated: when the integer fields hold integers and every quote of
\* every string leaf is isolated or part of a doubled pair, unparse(parse(d))
\* equals d with empty build and run added where absent.
C2_RoundTripIsolatedOrPaired ==
    (/\ pc = "unparsed"
     /\ IntFieldsHoldInts(arg0)
     /\ \A lf \in StrLeaves(arg0, << >>) : IsolatedOrPaired(lf.s))
    => unparsed.ok /\ unparsed.val = WithDefaults(arg0)

\* C2 amended: the round trip holds when the integer fields hold integers and
\* no string leaf has three or more consecutive quotes; each integer field n
\* comes back as the integer n.
C2_RoundTrip ==
    (/\ pc = "unparsed"
     /\ IntFieldsHoldInts(arg0)
     /\ \A lf \in StrLeaves(arg0, << >>) : RunsAtMostTwo(lf.s))
    => unparsed.ok /\ unparsed.val = WithDefaults(arg0)

C2_Witness ==
    /\ pc = "unparsed"
    /\ "allowed_failures" \in DOMAIN arg0.m
    /\ arg0.m["allowed_failures"].n < 0
    /\ "run" \notin DOMAIN arg0.m
    /\ \E lf \in StrLeaves(arg0, << >>) : Len(lf.path) > 1 /\ 2 \in RunLens(lf.s)
    /\ \E lf \in StrLeaves(arg0, << >>) : 1 \in RunLens(lf.s)
    /\ unparsed.ok
    /\ unparsed.val = WithDefaults(arg0)
    /\ unparsed.val.m["allowed_failures"] = arg0.m["allowed_failures"]

\* C3: forward escaping doubles each isolated quote and returns a leaf whose
\* quotes all occur as doubled pairs unchanged, at any depth.
C3_EscapePreservesDoubledPairs ==
    pc = "parsed" =>
        \A lf \in StrLeaves(arg0, << >>) :
            LET out == At(parsed.val, lf.path) IN
            /\ AllIsolated(lf.s) => out = PyStr(str_replace_quotes(lf.s))
            /\ AllDoubled(lf.s) => out = PyStr(lf.s)

\* C4: the top-level keys of parse(d) are the keys of d plus build and run,
\* each empty when d lacked it; a present integer field holds the decimal
\* string of d's integer; an absent one is not added.
C4_ParseKeysAndCasts ==
    parsed.called =>
        /\ DOMAIN parsed.val.m = DOMAIN arg0.m \cup {"build", "run"}
        /\ \A k \in {"build", "run"} \ DOMAIN arg0.m : parsed.val.m[k] = EmptyDict
        /\ \A k \in IntKeys :
              /\ k \notin DOMAIN arg0.m => k \notin DOMAIN parsed.val.m
              /\ (k \in DOMAIN arg0.m /\ arg0.m[k].t = "int") =>
                    /\ parsed.val.m[k].t = "str"
                    /\ IsDecimalOf(parsed.val.m[k].s, arg0.m[k].n)

C4_Witness ==
    /\ pc = "parsed"
    /\ "build" \notin DOMAIN arg0.m
    /\ "parallelism" \notin DOMAIN arg0.m
    /\ "allowed_failures" \in DOMAIN arg0.m
    /\ arg0.m["allowed_failures"] = PyInt(-10)
    /\ parsed.val.m["allowed_failures"] = PyStr(<<"-", "1", "0">>)
    /\ parsed.val.m["build"] = EmptyDict
    /\ "parallelism" \notin DOMAIN parsed.val.m

\* C6: _unparse_specification never adds or removes a top-level key: when
\* it succeeds the result has exactly the keys of its input.
C6_UnparseKeepsKeys ==
    (unparsed.called /\ unparsed.ok) =>
        DOMAIN unparsed.val.m =
            DOMAIN (IF pc = "unparsed_stored" THEN arg0 ELSE parsed.val).m

C6_Witness ==
    /\ pc = "unparsed_stored"
    /\ unparsed.ok
    /\ "build" \notin DOMAIN arg0.m
    /\ "batch_size" \notin DOMAIN arg0.m
    /\ "allowed_failures" \in DOMAIN arg0.m
    /\ DOMAIN unparsed.val.m = DOMAIN arg0.m
    /\ "run" \notin DOMAIN unparsed.val.m

\* C7 as stated: for every document with a string leaf that contains a
\* quote, encoding twice differs from encoding once (the leaf is escaped
\* again), whereas encode then decode returns the leaf.
C7_EncodeTwiceDiffersDecodeRestores ==
    /\ pc = "reparsed" =>
          /\ (\E lf \in StrLeaves(arg0, << >>) : HasQuote(lf.s))
                => reparsed.val # parsed.val
          /\ \A lf \in StrLeaves(arg0, << >>) :
                HasQuote(lf.s) => At(reparsed.val, lf.path) # At(parsed.val, lf.path)
    /\ pc = "unparsed" =>
          \A lf \in StrLeaves(arg0, << >>) :
              HasQuote(lf.s) => At(unparsed.val, lf.path) = PyStr(lf.s)

\* C7 amended: the document the second encode returns differs from the one
\* the first encode returned, every leaf with a quote being escaped again;
\* encode then decode returns a leaf that has no run of three or more quotes.
C7_EncodeTwiceDiffers ==
    /\ pc = "reparsed" =>
          /\ (\E lf \in StrLeaves(arg0, << >>) : HasQuote(lf.s))
                => reparsed.val # parsed.val
          /\ \A lf \in StrLeaves(arg0, << >>) :
                HasQuote(lf.s) => At(reparsed.val, lf.path) # At(parsed.val, lf.path)
    /\ pc = "unparsed" =>
          \A lf \in StrLeaves(arg0, << >>) :
              (HasQuote(lf.s) /\ RunsAtMostTwo(lf.s))
                  => At(unparsed.val, lf.path) = PyStr(lf.s)

C7_Witness ==
    /\ pc = "reparsed"
    /\ \E lf \in StrLeaves(arg0, << >>) :
          /\ Len(lf.path) > 2
          /\ lf.s = <<"a", Quote>>
          /\ At(parsed.val, lf.path) = PyStr(<<"a", Quote, Quote>>)
          /\ At(reparsed.val, lf.path) = PyStr(<<"a", Quote, Quote, Quote>>)


----------------------------------------------------------------------------
(* The request handlers *)

\* _DEFAULT_REQUESTS
DefaultCpu == PyStr(<<"5", "0", "0", "m">>)
DefaultMemory == PyStr(<<"2", "5", "6", "M", "i">>)

\* d.get(k): the value, or None
Get(h, a, k) == IF k \in DOMAIN h[a].m THEN h[a].m[k] ELSE PyNone

\* Python truth of a value
Truthy(h, v) ==
    CASE v.t = "none" -> FALSE
      [] v.t = "int" -> v.n # 0
      [] v.t = "str" -> v.s # << >>
      [] v.t = "ref" -> IF h[v.a].t = "dict" THEN DOMAIN h[v.a].m # {}
                        ELSE h[v.a].l # << >>

\* x or y
Or(h, x, y) == IF Truthy(h, x) THEN x ELSE y

\* _adjust_default_requests(dict_): the heap after the call
_adjust_default_requests(h, dict_) ==
    LET h1 == EnsureDict(h, dict_.a, "requests")
        rq == h1[dict_.a].m["requests"].a
        h2 == SetItem(h1, rq, "cpu", Or(h1, Get(h1, rq, "cpu"), DefaultCpu))
    IN SetItem(h2, rq, "memory", Or(h2, Get(h2, rq, "memory"), DefaultMemory))

\* the hardware keys and the parameter each becomes
HardwareParameters ==
    ("cpu_family" :> "CPU_FAMILY") @@ ("cpu_model" :> "CPU_MODEL")
    @@ ("physical_cpus" :> "PHYSICAL_CPUS") @@ ("processor" :> "PROCESSOR")

\* _construct_parameters_dict(specification): (parameters, use_hw_template)
_construct_parameters_dict(h, specification) ==
    LET requests == Get(h, specification.a, "requests")
        has_hw == requests.t = "ref" /\ "hardware" \in DOMAIN h[requests.a].m
        hw == IF has_hw THEN h[h[requests.a].m["hardware"].a].m ELSE EmptyMap
        present == {k \in DOMAIN HardwareParameters : k \in DOMAIN hw}
        name_of(p) == CHOOSE k \in present : HardwareParameters[k] = p
    IN [parameters |->
            [p \in {HardwareParameters[k] : k \in present} |-> hw[name_of(p)]],
        use_hw_template |-> has_hw]

\* what a handler did: returned a body (with a status code) or raised
Return(code, body) ==
    [called |-> TRUE, kind |-> "return", status |-> code, body |-> body]

ReturnBare(body) == [called |-> TRUE, kind |-> "return", body |-> body]

Raise(exc) == [called |-> TRUE, kind |-> "raise", exc |-> exc]

\* what create_dockerfile gives _do_create_dockerfile: a Dockerfile and
\* whether a job is to be run, or ScriptObtainingError
DockerfileOutcomes ==
    { [ok |-> TRUE, dockerfile |-> df, run_job |-> rj] :
          df \in {<<"F">>, <<"F", Quote, "x", Quote>>}, rj \in BOOLEAN }
    \cup { [ok |-> FALSE, error |-> e] : e \in {"no script", "script fetch failed"} }

\* _do_create_dockerfile(specification): (dockerfile, run_job) or (None, error)
_do_create_dockerfile(o) ==
    IF o.ok THEN [dockerfile |-> PyStr(o.dockerfile), second |-> o.run_job]
    ELSE [dockerfile |-> PyNone, second |-> o.error]

\* variant: the specification is parsed before the Dockerfile is generated
post_inspection_submit_parse_first(h, specification, o) ==
    LET p == _parse_specification(h, specification)
        made == _do_create_dockerfile(o)
    IN
    IF made.dockerfile.t = "none"
    THEN [h |-> p.h,
          returned |-> TRUE,
          generator_arg |-> Deref(p.h, p.v),
          resp |-> Return(400, ("parameters:" :> Deref(p.h, specification))
                               @@ ("error" :> made.second))]
    ELSE LET run_job == made.second
             h1 == _adjust_default_requests(p.h, p.h[p.v.a].m["run"])
             h2 == _adjust_default_requests(h1, h1[p.v.a].m["build"])
             c == _construct_parameters_dict(h2, Get(h2, p.v.a, "build"))
             h3 == SetItem(h2, p.v.a, "@created", Created)
             target == IF run_job THEN "inspection-run-result" ELSE "inspection-build"
         IN [h |-> h3,
             returned |-> FALSE,
             generator_arg |-> Deref(p.h, p.v),
             specification |-> p.v,
             target |-> target,
             call |-> [dockerfile |-> str_replace_quotes(made.dockerfile.s),
                       specification |-> Deref(h3, p.v),
                       target |-> target,
                       parameters |-> c.parameters]]

\* post_inspection up to and including the call of schedule_inspection:
\* the heap, the response if it returned, the call if it scheduled
post_inspection_submit(h, specification, o) ==
    LET made == _do_create_dockerfile(o) IN
    IF made.dockerfile.t = "none"
    THEN [h |-> h,
          returned |-> TRUE,
          generator_arg |-> Deref(h, specification),
          resp |-> Return(400, ("parameters:" :> Deref(h, specification))
                               @@ ("error" :> made.second))]
    ELSE LET run_job == made.second
             p == _parse_specification(h, specification)
             h1 == _adjust_default_requests(p.h, p.h[p.v.a].m["run"])
             h2 == _adjust_default_requests(h1, h1[p.v.a].m["build"])
             c == _construct_parameters_dict(h2, Get(h2, p.v.a, "build"))
             h3 == SetItem(h2, p.v.a, "@created", Created)
             target == IF run_job THEN "inspection-run-result" ELSE "inspection-build"
         IN [h |-> h3,
             returned |-> FALSE,
             generator_arg |-> Deref(h, specification),
             specification |-> p.v,
             target |-> target,
             call |-> [dockerfile |-> str_replace_quotes(made.dockerfile.s),
                       specification |-> Deref(h3, p.v),
                       target |-> target,
                       parameters |-> c.parameters]]

WorkflowIds == {"inspection-1a2b", "inspection-3c4d"}

\* what schedule_inspection answers: a workflow identifier, or an exception
ScheduleOutcomes ==
    { [ok |-> TRUE, workflow_id |-> w] : w \in WorkflowIds }
    \cup { [ok |-> FALSE, exc |-> "ApiException"] }

\* post_inspection from the return of schedule_inspection: the response is
\* built from the name inspection_id, which the function never binds
post_inspection_respond(h, specification, target, s) ==
    IF ~s.ok THEN Raise(s.exc)
    ELSE Raise("NameError")

\* what the orchestrator answers a lookup: the object, or NotFoundException
NotFound == [found |-> FALSE]

Found(x) == [found |-> TRUE, v |-> x]

WorkflowLookups == {NotFound, Found("Running"), Found("Succeeded")}

PodLookups == {NotFound, Found("running"), Found("terminated")}

JobLookups == {NotFound, Found("active"), Found("succeeded")}

Null == "null"

\* variant: a job that is not found is answered like a build that is not found
get_inspection_status_job_required(wf, pod, job) ==
    IF ~wf.found
    THEN [resp |-> Return(404, [error |-> "A Workflow for the given inspection id was not found"]),
          calls |-> <<"get_workflow">>]
    ELSE IF ~pod.found
    THEN [resp |-> Return(404, [error |-> "The given inspection id was not found"]),
          calls |-> <<"get_workflow", "get_pod_status_report">>]
    ELSE IF ~job.found
    THEN [resp |-> Return(404, [error |-> "The given inspection id was not found"]),
          calls |-> <<"get_workflow", "get_pod_status_report", "get_job_status_report">>]
    ELSE [resp |-> Return(200, [build |-> pod.v, job |-> job.v, workflow |-> wf.v]),
          calls |-> <<"get_workflow", "get_pod_status_report", "get_job_status_report">>]

\* get_inspection_status(inspection_id): the response and the client calls
\* made, given what each lookup answers when it is made
get_inspection_status(wf, pod, job) ==
    IF ~wf.found
    THEN [resp |-> Return(404, [error |-> "A Workflow for the given inspection id was not found"]),
          calls |-> <<"get_workflow">>]
    ELSE IF ~pod.found
    THEN [resp |-> Return(404, [error |-> "The given inspection id was not found"]),
          calls |-> <<"get_workflow", "get_pod_status_report">>]
    ELSE [resp |-> Return(200, [build |-> pod.v,
                                job |-> IF job.found THEN job.v ELSE Null,
                                workflow |-> wf.v]),
          calls |-> <<"get_workflow", "get_pod_status_report", "get_job_status_report">>]

\* variant: the conversion error is caught and answered as an error body
get_inspection_specification_recovers(h, wf) ==
    IF ~wf.found
    THEN [h |-> h,
          resp |-> ReturnBare([error |-> "A Workflow for the given inspection id as not found"])]
    ELSE LET loaded == Store(h, wf.v)
             u == _unparse_specification(loaded.h, loaded.v)
         IN IF ~u.ok
            THEN [h |-> u.h, resp |-> ReturnBare([error |-> "Malformed specification"])]
            ELSE IF "@created" \notin DOMAIN u.h[u.v.a].m
            THEN [h |-> u.h, resp |-> Raise("KeyError")]
            ELSE LET created == u.h[u.v.a].m["@created"]
                     h1 == [u.h EXCEPT ![u.v.a] = PyDict(Without(u.h[u.v.a].m, "@created"))]
                 IN [h |-> h1,
                     resp |-> ReturnBare([specification |-> Deref(h1, u.v),
                                          created |-> created])]

\* get_inspection_specification(inspection_id), given what get_workflow
\* answers: the stored specification parameter by value, or not found
get_inspection_specification(h, wf) ==
    IF ~wf.found
    THEN [h |-> h,
          resp |-> ReturnBare([error |-> "A Workflow for the given inspection id as not found"])]
    ELSE LET loaded == Store(h, wf.v)
             u == _unparse_specification(loaded.h, loaded.v)
         IN IF ~u.ok THEN [h |-> u.h, resp |-> Raise(u.exc)]
            ELSE IF "@created" \notin DOMAIN u.h[u.v.a].m
            THEN [h |-> u.h, resp |-> Raise("KeyError")]
            ELSE LET created == u.h[u.v.a].m["@created"]
                     h1 == [u.h EXCEPT ![u.v.a] = PyDict(Without(u.h[u.v.a].m, "@created"))]
                 IN [h |-> h1,
                     resp |-> ReturnBare([specification |-> Deref(h1, u.v),
                                          created |-> created])]

----------------------------------------------------------------------------
(* The service: one request per run *)

\* request documents of post_inspection
ApiDocs ==
    UNION {
        { D1("note", PyStr(s)),
          D2("allowed_failures", PyInt(2), "run", D1("script", PyStr(s))),
          D2("batch_size", PyInt(10),
             "build", D1("requests",
                         D2("cpu", PyStr(<<>>),
                            "hardware", D2("cpu_family", PyInt(6),
                                           "cpu_model", PyStr(s))))),
          D2("build", D1("requests", D1("memory", PyStr(<<"1", "G">>))),
             "run", D1("requests", D1("cpu", PyStr(<<"2">>)))) } :
        s \in StrsUpTo(2) }

CodecIdle ==
    /\ pc = "unused"
    /\ arg = PyNone
    /\ arg0 = PyNone
    /\ parsed = NotCalled
    /\ reparsed = NotCalled
    /\ unparsed = NotCalled

InitApi ==
    /\ CodecIdle
    /\ scheduled = << >>
    /\ status = NotCalled
    /\ getspec = NotCalled
    /\ \/ \E d \in ApiDocs :
             LET r == Store(<< >>, d) IN
             /\ heap = r.h
             /\ post = [pc |-> "received", specification |-> r.v, request |-> d]
       \/ /\ heap = << >>
          /\ post = [pc |-> "unused"]

\* post_inspection(specification), to the call of schedule_inspection
PostInspectionSubmit ==
    /\ post.pc = "received"
    /\ \E o \in DockerfileOutcomes :
          LET r == post_inspection_submit(heap, post.specification, o) IN
          /\ heap' = r.h
          /\ IF r.returned
             THEN /\ post' = [post EXCEPT !.pc = "done"] @@ [made |-> o, generator_arg |-> r.generator_arg,
                                resp |-> r.resp]
                  /\ UNCHANGED scheduled
             ELSE /\ post' = [post EXCEPT !.pc = "scheduling"]
                                @@ [made |-> o, generator_arg |-> r.generator_arg,
                                    parsed |-> r.specification,
                                    target |-> r.target]
                  /\ scheduled' = Append(scheduled, r.call)
    /\ UNCHANGED <<codecVars, status, getspec>>

\* post_inspection, from the answer of schedule_inspection to its end
PostInspectionRespond ==
    /\ post.pc = "scheduling"
    /\ \E s \in ScheduleOutcomes :
          post' = [post EXCEPT !.pc = "done"]
                     @@ [answer |-> s,
                         resp |-> post_inspection_respond(heap, post.parsed,
                                                          post.target, s)]
    /\ UNCHANGED <<heap, codecVars, scheduled, status, getspec>>

\* get_inspection_status(inspection_id)
GetInspectionStatus ==
    /\ post.pc = "unused"
    /\ ~status.called
    /\ ~getspec.called
    /\ \E wf \in WorkflowLookups, pod \in PodLookups, job \in JobLookups :
          LET r == get_inspection_status(wf, pod, job) IN
          status' = [called |-> TRUE, wf |-> wf, pod |-> pod, job |-> job,
                     calls |-> r.calls, resp |-> r.resp]
    /\ UNCHANGED <<heap, codecVars, post, scheduled, getspec>>

\* the specification parameter get_workflow may hand back: one a workflow
\* of the cluster stores, or the one this service scheduled
StoredSpecifications ==
    IF post.pc = "unused" THEN StoredDocs
    ELSE {scheduled[i].specification : i \in 1..Len(scheduled)}

\* get_inspection_specification(inspection_id)
GetInspectionSpecification ==
    /\ post.pc \in {"unused", "done"}
    /\ ~status.called
    /\ ~getspec.called
    /\ \E wf \in {NotFound} \cup {Found(d) : d \in StoredSpecifications} :
          LET r == get_inspection_specification(heap, wf) IN
          /\ heap' = r.h
          /\ getspec' = [called |-> TRUE, wf |-> wf, resp |-> r.resp]
    /\ UNCHANGED <<codecVars, post, scheduled, status>>

NextApi ==
    \/ PostInspectionSubmit
    \/ PostInspectionRespond
    \/ GetInspectionStatus
    \/ GetInspectionSpecification

SpecApi == InitApi /\ [][NextApi]_vars


----------------------------------------------------------------------------
(* Properties of the handlers *)

\* the stored document has an integer field holding a string int() rejects
HasMalformedIntField(d) ==
    \E k \in IntKeys \cap DOMAIN d.m :
        d.m[k].t = "str" /\ ~NumericString(d.m[k].s)

\* C5: when an integer field of the stored document holds a string that is
\* not numeric, _unparse_specification raises a value-conversion error and
\* get_inspection_specification does not catch it: the query ends with that
\* error and no specification response.
C5_MalformedIntegerPropagates ==
    (/\ getspec.called
     /\ getspec.wf.found
     /\ HasMalformedIntField(getspec.wf.v))
    => getspec.resp = Raise("ValueError")

C5_Witness ==
    /\ getspec.called
    /\ getspec.wf.found
    /\ "allowed_failures" \in DOMAIN getspec.wf.v.m
    /\ getspec.wf.v.m["allowed_failures"] = PyStr(<<"1">>)
    /\ "batch_size" \in DOMAIN getspec.wf.v.m
    /\ getspec.wf.v.m["batch_size"] = PyStr(<<"x">>)
    /\ "@created" \in DOMAIN getspec.wf.v.m
    /\ getspec.resp = Raise("ValueError")

\* C8: the Dockerfile generator is given the raw specification, before the
\* codec and before any scheduling; when it yields an error post_inspection
\* returns 400 with that error, the specification is not transformed and
\* schedule_inspection is never called for the request.
C8_DockerfileComesFirst ==
    post.pc \in {"scheduling", "done"} =>
        /\ post.generator_arg = post.request
        /\ ~post.made.ok =>
              /\ post.pc = "done"
              /\ post.resp.kind = "return"
              /\ post.resp.status = 400
              /\ post.resp.body["error"] = post.made.error
              /\ post.resp.body["parameters:"] = post.request
              /\ Deref(heap, post.specification) = post.request
              /\ scheduled = << >>

C8_Witness ==
    /\ post.pc = "done"
    /\ ~post.made.ok
    /\ post.resp.status = 400
    /\ post.resp.body["error"] = "no script"
    /\ scheduled = << >>
    /\ \E lf \in StrLeaves(post.request, << >>) : Len(lf.path) > 1 /\ HasQuote(lf.s)
    /\ Deref(heap, post.specification) = post.request

\* C9: when schedule_inspection succeeds and returns a workflow identifier,
\* post_inspection ends with a 202 response whose inspection_id is that
\* identifier, with workflow_id, workflow_target and the parameters.
C9_ScheduledWorkflowIsAnswered ==
    (post.pc = "done" /\ post.made.ok /\ post.answer.ok) =>
        /\ post.resp.kind = "return"
        /\ post.resp.status = 202
        /\ post.resp.body["inspection_id"] = post.answer.workflow_id
        /\ post.resp.body["workflow_id"] = post.answer.workflow_id
        /\ post.resp.body["workflow_target"] = post.target

\* C10: get_inspection_status returns 200 exactly when the workflow and the
\* build pod are both found and 404 otherwise; the workflow is looked up
\* first, and when it is missing nothing else is queried; a job that is not
\* found still gives 200, with the job status null.
C10_StatusCodes ==
    status.called =>
        /\ (status.resp.status = 200) <=> (status.wf.found /\ status.pod.found)
        /\ (status.resp.status = 404) <=> ~(status.wf.found /\ status.pod.found)
        /\ Head(status.calls) = "get_workflow"
        /\ ~status.wf.found => status.calls = <<"get_workflow">>
        /\ (status.wf.found /\ status.pod.found /\ ~status.job.found) =>
              /\ status.resp.status = 200
              /\ status.resp.body.job = Null
              /\ status.resp.body.build = status.pod.v
              /\ status.resp.body.workflow = status.wf.v

C10_Witness ==
    /\ status.called
    /\ status.wf.found
    /\ status.pod.found
    /\ ~status.job.found
    /\ status.resp.status = 200
    /\ status.resp.body.job = Null


====
